---- MODULE Spec2Model ----
(***************************************************************************)
(* Block identifier resolution, the async handler guard and the            *)
(* transaction error middleware of substrate-api-sidecar.                  *)
(*                                                                         *)
(* One behaviour is one call of one entry point: a staking-info route      *)
(* mounted through catchWrap, a guarded handler of another controller, or  *)
(* a direct call of a helper of AbstractController.  Strings are sequences *)
(* of one-character strings.                                               *)
(***************************************************************************)
EXTENDS Integers, Sequences, FiniteSets, TLC

\* ------------------------------------------------------------------ bounds
\* Longest block identifier drawn freely over Alphabet.
MaxLen == 3
\* Largest height the chain may have reached.
MaxHeight == 1

\* how deep the JSON bodies given to sanitizedSend are nested
MaxDepth == 2

\* ------------------------------------------------------- program constants
\* blockId.length === 66
HashLen == 66

\* ----------------------------------------------------------------- strings
Alphabet == {"0", "1", "x", "a", "g", "-", ".", " "}

DecDigits == {"0", "1", "2", "3", "4", "5", "6", "7", "8", "9"}

HexDigits == DecDigits \cup {"a", "b", "c", "d", "e", "f", "A", "B", "C", "D", "E", "F"}

WhiteSpace == {" "}

DigitValue(c) ==
    CASE c = "0" -> 0 [] c = "1" -> 1 [] c = "2" -> 2 [] c = "3" -> 3
      [] c = "4" -> 4 [] c = "5" -> 5 [] c = "6" -> 6 [] c = "7" -> 7
      [] c = "8" -> 8 [] c = "9" -> 9
      [] c \in {"a", "A"} -> 10 [] c \in {"b", "B"} -> 11
      [] c \in {"c", "C"} -> 12 [] c \in {"d", "D"} -> 13
      [] c \in {"e", "E"} -> 14 [] c \in {"f", "F"} -> 15

DigitChar(d) ==
    CASE d = 0 -> "0" [] d = 1 -> "1" [] d = 2 -> "2" [] d = 3 -> "3"
      [] d = 4 -> "4" [] d = 5 -> "5" [] d = 6 -> "6" [] d = 7 -> "7"
      [] d = 8 -> "8" [] d = 9 -> "9"

\* blockId.slice(from - 1, to) in 1-based, inclusive positions
Slice(s, from, to) ==
    IF from > to THEN << >> ELSE [i \in 1..(to - from + 1) |-> s[from + i - 1]]

AllIn(s, set) == \A i \in 1..Len(s) : s[i] \in set

\* the number a digit string denotes in the given radix
RECURSIVE RadixValue(_, _)
RadixValue(s, radix) ==
    IF s = << >> THEN 0
    ELSE RadixValue(Slice(s, 1, Len(s) - 1), radix) * radix + DigitValue(s[Len(s)])

\* n.toString() of a non-negative integer
RECURSIVE NumberToString(_)
NumberToString(n) ==
    IF n < 10 THEN <<DigitChar(n)>>
    ELSE NumberToString(n \div 10) \o <<DigitChar(n % 10)>>

\* isHex(value) of @polkadot/util with its default bitLength and ignoreLength:
\* value === '0x' || /^0x[a-fA-F0-9]+$/ matches, and the length is even
isHex(s) ==
    /\ Len(s) >= 2
    /\ s[1] = "0"
    /\ s[2] = "x"
    /\ AllIn(Slice(s, 3, Len(s)), HexDigits)
    /\ Len(s) % 2 = 0

\* ------------------------------------------------- Number(n) of a string
NaN == [nan |-> TRUE, neg |-> FALSE, int |-> 0, fracZero |-> TRUE]

Finite(neg, int, fracZero) == [nan |-> FALSE, neg |-> neg, int |-> int, fracZero |-> fracZero]

RECURSIVE TrimLeft(_)
TrimLeft(s) ==
    IF s # << >> /\ s[1] \in WhiteSpace THEN TrimLeft(Slice(s, 2, Len(s))) ELSE s

RECURSIVE TrimRight(_)
TrimRight(s) ==
    IF s # << >> /\ s[Len(s)] \in WhiteSpace THEN TrimRight(Slice(s, 1, Len(s) - 1)) ELSE s

\* position of the first "." of s, or 0
DotAt(s) ==
    IF \E i \in 1..Len(s) : s[i] = "."
    THEN CHOOSE i \in 1..Len(s) : s[i] = "." /\ \A j \in 1..(i - 1) : s[j] # "."
    ELSE 0

\* StrUnsignedDecimalLiteral without exponent: digits, digits "." digits?, "." digits
UnsignedDecimal(s, neg) ==
    LET dot == DotAt(s)
        ip  == IF dot = 0 THEN s ELSE Slice(s, 1, dot - 1)
        fp  == IF dot = 0 THEN << >> ELSE Slice(s, dot + 1, Len(s))
    IN  IF /\ AllIn(ip, DecDigits)
           /\ AllIn(fp, DecDigits)
           /\ Len(ip) + Len(fp) > 0
        THEN Finite(neg, RadixValue(ip, 10), AllIn(fp, {"0"}))
        ELSE NaN

\* NonDecimalIntegerLiteral: 0x, 0o, 0b and their upper-case forms, unsigned
RadixOf(c) ==
    CASE c \in {"x", "X"} -> 16
      [] c \in {"o", "O"} -> 8
      [] c \in {"b", "B"} -> 2
      [] OTHER -> 0

RadixDigits(radix) ==
    CASE radix = 16 -> HexDigits
      [] radix = 8 -> {"0", "1", "2", "3", "4", "5", "6", "7"}
      [] radix = 2 -> {"0", "1"}
      [] OTHER -> {}

\* Number(n): StringToNumber of ECMAScript, on strings without an exponent
\* part and without the word Infinity
StringToNumber(s) ==
    LET t == TrimRight(TrimLeft(s))
    IN  IF t = << >> THEN Finite(FALSE, 0, TRUE)
        ELSE IF Len(t) >= 2 /\ t[1] = "0" /\ RadixOf(t[2]) # 0
        THEN LET ds == Slice(t, 3, Len(t))
             IN  IF ds # << >> /\ AllIn(ds, RadixDigits(RadixOf(t[2])))
                 THEN Finite(FALSE, RadixValue(ds, RadixOf(t[2])), TRUE)
                 ELSE NaN
        ELSE IF t[1] \in {"+", "-"}
        THEN UnsignedDecimal(Slice(t, 2, Len(t)), t[1] = "-")
        ELSE UnsignedDecimal(t, FALSE)

\* Number.isInteger(num)
NumberIsInteger(num) == ~num.nan /\ num.fracZero

\* num < 0 (false of NaN and of -0)
LessThanZero(num) == ~num.nan /\ num.neg /\ (num.int # 0 \/ ~num.fracZero)

\* ------------------------------------------------------------------ errors
\* An error value: kind is its class or shape, text and args its message (the
\* template and the strings spliced into it), the other fields the payload
\* of a chain-client fault.
NoString == "undefined"

ErrorValue(kind, text, args, error, data, cause, transaction, stack) ==
    [kind |-> kind, text |-> text, args |-> args, error |-> error,
     data |-> data, cause |-> cause, transaction |-> transaction, stack |-> stack]

NoError ==
    ErrorValue("none", NoString, << >>, NoString, NoString, NoString, NoString, NoString)

\* new BadRequest(message)
BadRequest(text, args) ==
    ErrorValue("BadRequest", text, args, NoString, NoString, NoString, NoString, NoString)

\* new InternalServerError(message)
InternalServerError(text, args) ==
    ErrorValue("InternalServerError", text, args,
               NoString, NoString, NoString, NoString, NoString)

\* err instanceof HttpError
IsHttpError(err) == err.kind \in {"BadRequest", "InternalServerError"}

\* a fault of the shape {error, data, cause}
BasicLegacyError(error, data, cause) ==
    ErrorValue("BasicLegacy", NoString, << >>, error, data, cause, NoString, NoString)

\* a fault of the shape {error, data, cause, transaction, stack}
TxLegacyError(error, data, cause, transaction, stack) ==
    ErrorValue("TxLegacy", NoString, << >>, error, data, cause, transaction, stack)

\* any other thrown value
OtherError(text) ==
    ErrorValue("Other", text, << >>, NoString, NoString, NoString, NoString, NoString)

isBasicLegacyError(err) == err.kind \in {"BasicLegacy", "TxLegacy"}

isTxLegacyError(err) == err.kind = "TxLegacy"

\* what a chain-client call or the domain service may reject with
ChainFaults ==
    {BasicLegacyError("rpc failed", "d1", "c1"), OtherError("disconnected")}

\* what a guarded handler of any controller may throw
HandlerErrors ==
    ChainFaults \cup
    {TxLegacyError("tx failed", "d1", "c1", "0xtx1", "stack1"),
     TxLegacyError("tx invalid", "d2", "c2", "0xtx2", "stack2"),
     BadRequest("bad", << >>),
     InternalServerError("oops", << >>)}

\* what the domain service may reject with: a chain fault, or the error of a
\* transaction it ran
ServiceFaults ==
    ChainFaults \cup {TxLegacyError("tx failed", "d1", "c1", "0xtx1", "stack1")}

\* ------------------------------------------------------------ chain client
\* a string of len characters: "0x" followed by the digit d
HexOf(len, d) == [i \in 1..len |-> IF i = 1 THEN "0" ELSE IF i = 2 THEN "x" ELSE d]

\* the hash of the block at height n on the chain the client is connected to
ChainHash(n) ==
    [i \in 1..HashLen |->
        IF i = 1 THEN "0" ELSE IF i = 2 THEN "x"
        ELSE IF i = HashLen THEN DigitChar(n % 10) ELSE "c"]

\* this.api.createType('BlockHash', blockId): the 32 bytes, in lower case
LowerCase(c) ==
    CASE c = "A" -> "a" [] c = "B" -> "b" [] c = "C" -> "c"
      [] c = "D" -> "d" [] c = "E" -> "e" [] c = "F" -> "f"
      [] OTHER -> c

createType(blockId) == [i \in 1..Len(blockId) |-> LowerCase(blockId[i])]

\* let blockNumber; and a field that is not set
Undefined == -1

\* one entry of the log of chain-client calls
Call(op, arg, ok, hash, number) ==
    [op |-> op, arg |-> arg, ok |-> ok, hash |-> hash, number |-> number]

\* ---------------------------------------------------------- response bodies
\* A JSON value: t is "bn" (a chain-native integer, in num), "hex" (a
\* chain-native number in its hex string form, in str), "num" (a plain
\* number), "str" (a string), "null", "arr" (items are its elements, keys
\* empty) or "obj" (items are its fields, in order).
Json(t, num, str, items) == [t |-> t, num |-> num, str |-> str, items |-> items]

Bn(n) == Json("bn", n, << >>, << >>)

HexNumber(s) == Json("hex", 0, s, << >>)

Num(n) == Json("num", n, << >>, << >>)

Str(s) == Json("str", 0, s, << >>)

Null == Json("null", 0, << >>, << >>)

Field(key, val) == [key |-> key, val |-> val]

Arr(vals) == Json("arr", 0, << >>, [i \in 1..Len(vals) |-> Field("", vals[i])])

Obj(fields) == Json("obj", 0, << >>, fields)

\* express's res before any send
NoBody == Json("none", 0, << >>, << >>)

\* sanitizeNumbers(data): a chain-native number becomes its decimal string,
\* arrays and objects are traversed in order, anything else passes through
RECURSIVE sanitizeNumbers(_)
sanitizeNumbers(data) ==
    CASE data.t = "bn"  -> Str(NumberToString(data.num))
      [] data.t = "hex" -> Str(NumberToString(RadixValue(Slice(data.str, 3, Len(data.str)), 16)))
      [] data.t \in {"arr", "obj"} ->
            Json(data.t, 0, << >>,
                 [i \in 1..Len(data.items) |->
                    Field(data.items[i].key, sanitizeNumbers(data.items[i].val))])
      [] OTHER -> data

\* what service.derivePalletStakingProgress(hash) resolves to
StakingProgress(hash, era) ==
    Obj(<<Field("at", Obj(<<Field("hash", Str(hash))>>)),
          Field("activeEra", Bn(era))>>)

Eras == {7, 12}

\* the values a JSON body has at its leaves
Leaves ==
    {Bn(12), HexNumber(<<"0", "x", "1", "a">>), Num(3), Str(<<"1", "2">>), Null}

\* JSON bodies nested d deep: a leaf, an empty array or object, or an array
\* or object of one or two members whose last member is nested d - 1 deep
RECURSIVE JsonValues(_)
JsonValues(d) ==
    IF d = 0 THEN Leaves
    ELSE LET inner == JsonValues(d - 1)
         IN  Leaves \cup {Arr(<< >>), Obj(<< >>)}
             \cup {Arr(<<v>>) : v \in inner}
             \cup {Arr(<<l, v>>) : l \in Leaves, v \in inner}
             \cup {Obj(<<Field("b", v)>>) : v \in inner}
             \cup {Obj(<<Field("b", l), Field("a", v)>>) : l \in Leaves, v \in inner}

NoErrorBody ==
    [code |-> Undefined, error |-> NoString, data |-> NoString,
     transaction |-> NoString, cause |-> NoString, stack |-> NoString]

\* ------------------------------------------------------------------ inputs
RECURSIVE StringsUpTo(_)
StringsUpTo(n) ==
    IF n = 0 THEN {<< >>}
    ELSE LET shorter == StringsUpTo(n - 1)
         IN  shorter \cup {Append(s, c) : s \in {t \in shorter : Len(t) = n - 1}, c \in Alphabet}

\* identifiers about as long as a block hash: hex strings of 64 to 68
\* characters, and 66 characters with a digit that is not hexadecimal
LongIds ==
    {HexOf(len, d) : len \in (HashLen - 2)..(HashLen + 2), d \in {"0", "a"}}
    \cup {[HexOf(HashLen, "1") EXCEPT ![HashLen] = "a"],
          [HexOf(HashLen, "a") EXCEPT ![HashLen] = "g"],
          [HexOf(HashLen, "a") EXCEPT ![2] = "0"]}

BlockIds == StringsUpTo(MaxLen) \cup LongIds

\* the `at` query parameter as express parses it
AtValue(type, str) == [type |-> type, str |-> str]

AtValues ==
    {AtValue("undefined", << >>), AtValue("array", << >>), AtValue("object", << >>)}
    \cup {AtValue("string", s) : s \in BlockIds}

\* a numeric query parameter as express parses it
QueryValues ==
    {AtValue("undefined", << >>), AtValue("array", << >>), AtValue("object", << >>)}
    \cup {AtValue("string", s) : s \in StringsUpTo(MaxLen)}

\* the `or` argument of verifyAndCastOr: undefined or a number
Defaults == {Undefined, 2}

\* the `name` argument of verifyAndCastOr
ParamNames == {"depth"}

\* a request handler of any controller: it may send the response, and then
\* returns, throws before its first await ("sync") or rejects ("async")
Callback(sends, mode, err) == [sends |-> sends, mode |-> mode, err |-> err]

Callbacks ==
    {Callback(sends, "return", NoError) : sends \in BOOLEAN}
    \cup {Callback(sends, mode, err) :
            sends \in BOOLEAN, mode \in {"sync", "async"}, err \in HandlerErrors}

\* ------------------------------------------------------------------- state
VARIABLES
    entry,        \* the entry point this behaviour calls
    cb,           \* the handler given to catchWrap, for entry "handler"
    at,           \* the argument of getHashFromAt
    param,        \* the str argument of verifyAndCastOr
    orValue,      \* the or argument of verifyAndCastOr
    payload,      \* the body argument of sanitizedSend
    cast,         \* how verifyAndCastOr ended
    blockId,      \* the argument of getHashForBlock
    height,       \* the number of the chain's latest header
    pc,           \* where the call is
    blockNumber,  \* getHashForBlock's local variable
    caught,       \* what getHashForBlock's outer catch caught
    calls,        \* the chain-client calls made, in order
    created,      \* the errors constructed with new, in order
    outcome,      \* how getHashForBlock / getHashFromAt ended
    handler,      \* how the request handler ended
    guard,        \* the promise of the handler catchWrap returns
    res,          \* the express response
    nexts,        \* the errors catchWrap gave to next
    passed        \* the errors txErrorMiddleware gave to next

vars ==
    <<entry, cb, at, param, orValue, payload, cast, blockId, height, pc,
      blockNumber, caught, calls, created, outcome, handler, guard, res, nexts,
      passed>>

Pending == [kind |-> "pending", hash |-> << >>, err |-> NoError]

Return(hash) == [kind |-> "return", hash |-> hash, err |-> NoError]

Throw(err) == [kind |-> "throw", hash |-> << >>, err |-> err]

NoCallback == Callback(FALSE, "return", NoError)

\* how verifyAndCastOr stands: not ended, returned num, or thrown err
Cast(kind, num, err) == [kind |-> kind, num |-> num, err |-> err]

CastPending == Cast("pending", Undefined, NoError)

CastReturn(num) == Cast("return", num, NoError)

CastThrow(err) == Cast("throw", Undefined, err)

\* how the request handler stands: not called, running, returned (its promise
\* fulfilled), or thrown err: synchronously, before it returned a promise
\* ("sync"), or by rejecting its promise ("async")
HandlerState(state, err, mode) == [state |-> state, err |-> err, mode |-> mode]

NotMounted == HandlerState("idle", NoError, "none")

Running == HandlerState("running", NoError, "none")

Returned == HandlerState("returned", NoError, "none")

Threw(err, mode) == HandlerState("threw", err, mode)

InitCommon ==
    /\ height \in 0..MaxHeight
    /\ blockNumber = Undefined
    /\ caught = NoError
    /\ calls = << >>
    /\ created = << >>
    /\ outcome = Pending
    /\ res = [headersSent |-> FALSE, statusCode |-> 200, sends |-> 0,
              json |-> NoBody, errBody |-> NoErrorBody]
    /\ nexts = << >>
    /\ passed = << >>
    /\ cast = CastPending

\* the entry point takes neither a query parameter nor a body
NoArguments ==
    /\ param = AtValue("undefined", << >>)
    /\ orValue = Undefined
    /\ payload = NoBody

Init ==
    /\ InitCommon
    /\ \/ /\ entry = "getStakingInfo"
          /\ pc = "getStakingInfo"
          /\ cb = NoCallback /\ at = AtValue("undefined", << >>) /\ blockId = << >>
          /\ NoArguments
          /\ handler = Running /\ guard = "pending"
       \/ /\ entry = "getStakingInfoAtBlock"
          /\ pc = "getHashForBlock"
          /\ cb = NoCallback /\ at = AtValue("undefined", << >>)
          /\ blockId \in BlockIds \ {<< >>}
          /\ NoArguments
          /\ handler = Running /\ guard = "pending"
       \/ /\ entry = "getHashFromAt"
          /\ pc = "getHashFromAt"
          /\ cb = NoCallback /\ at \in AtValues /\ blockId = << >>
          /\ NoArguments
          /\ handler = NotMounted /\ guard = "idle"
       \/ /\ entry = "handler"
          /\ pc = "cb"
          /\ cb \in Callbacks /\ at = AtValue("undefined", << >>) /\ blockId = << >>
          /\ NoArguments
          /\ handler = Running /\ guard = "pending"
       \/ /\ entry = "verifyAndCastOr"
          /\ pc = "verifyAndCastOr"
          /\ cb = NoCallback /\ at = AtValue("undefined", << >>) /\ blockId = << >>
          /\ param \in QueryValues /\ orValue \in Defaults /\ payload = NoBody
          /\ handler = NotMounted /\ guard = "idle"
       \/ /\ entry = "sanitizedSend"
          /\ pc = "sanitizedSend"
          /\ cb = NoCallback /\ at = AtValue("undefined", << >>) /\ blockId = << >>
          /\ param = AtValue("undefined", << >>) /\ orValue = Undefined
          /\ payload \in JsonValues(MaxDepth)
          /\ handler = NotMounted /\ guard = "idle"

\* ------------------------------------------------------- AbstractController
\* the message templates of getHashForBlock
HexLengthMessage ==
    "Cannot get block hash for ${blockId}. Hex string block IDs must be 32-bytes (66-characters) in length."

InvalidHexMessage ==
    "Cannot get block hash for ${blockId}. Hex string block IDs must be a valid hex string and must be 32-bytes (66-characters) in length."

InvalidBlockIdMessage ==
    "Cannot get block hash for ${blockId}. Block IDs must be either 32-byte hex strings or non-negative decimal integers."

TooLargeMessage ==
    "Specified block number is larger than the current largest block. The largest known block number is ${number}."

CannotGetMessage ==
    "Cannot get block hash for ${blockId}."

HeaderFailedMessage ==
    "Failed while trying to get the latest header."

InvalidNumberMessage ==
    "Invalid block number"

\* parseNumberOrThrow with num <= 0 for num < 0: height 0 is refused
parseNumberOrThrowRefusesZero(n, errorMessage) ==
    LET num == StringToNumber(n)
    IN  IF ~NumberIsInteger(num) \/ num.neg \/ num.int = 0
        THEN [threw |-> TRUE, err |-> BadRequest(errorMessage, << >>), num |-> Undefined]
        ELSE [threw |-> FALSE, err |-> NoError, num |-> num.int]

\* parseNumberOrThrow(n, errorMessage): the number, or the BadRequest thrown
parseNumberOrThrow(n, errorMessage) ==
    LET num == StringToNumber(n)
    IN  IF ~NumberIsInteger(num) \/ LessThanZero(num)
        THEN [threw |-> TRUE, err |-> BadRequest(errorMessage, << >>), num |-> Undefined]
        ELSE [threw |-> FALSE, err |-> NoError, num |-> num.int]

IncorrectArgumentMessage ==
    "Incorrect argument quantity or type passed in for ${name} query param"

InvalidQueryNumberMessage ==
    "${name} query param is an invalid number"

\* !str: undefined and the empty string are falsy, arrays and objects are not
Falsy(str) == str.type = "undefined" \/ (str.type = "string" /\ str.str = << >>)

\* verifyAndCastOr(name, str, or)
VerifyAndCastOr(name, str, or) ==
    IF Falsy(str)
    THEN CastReturn(or)
    ELSE IF str.type # "string"
    THEN CastThrow(BadRequest(IncorrectArgumentMessage, <<name>>))
    ELSE LET parsed == parseNumberOrThrow(str.str, InvalidQueryNumberMessage)
         IN  IF parsed.threw
             THEN CastThrow([parsed.err EXCEPT !.args = <<name>>])
             ELSE CastReturn(parsed.num)

verifyAndCastOr ==
    /\ pc = "verifyAndCastOr"
    /\ \E name \in ParamNames : cast' = VerifyAndCastOr(<<name>>, param, orValue)
    /\ pc' = "done"
    /\ UNCHANGED <<entry, cb, at, param, orValue, payload, blockId, height,
                   blockNumber, caught, calls, created, outcome, handler, guard,
                   res, nexts, passed>>

\* blockId.slice(0, 2) === '0x'
HasHexPrefix(id) == Slice(id, 1, IF Len(id) < 2 THEN Len(id) ELSE 2) = <<"0", "x">>

\* getHashForBlock up to its first await: the hash returned, the BadRequest
\* thrown (and rethrown by the outer catch), or the height to look up;
\* made lists the errors constructed on the way
Validated(kind, hash, err, num, made) ==
    [kind |-> kind, hash |-> hash, err |-> err, num |-> num, made |-> made]

\* ValidateBlockId taking a hash to be 64 characters, the digits of 32 bytes
ValidateBlockIdCountsDigits(id) ==
    LET isHexStr == isHex(id)
        parsed   == parseNumberOrThrow(id, InvalidNumberMessage)
        tooShort == BadRequest(HexLengthMessage, <<id>>)
        notHex   == BadRequest(InvalidHexMessage, <<id>>)
        notNum   == BadRequest(InvalidBlockIdMessage, <<id>>)
    IN  IF isHexStr /\ Len(id) = HashLen - 2
        THEN Validated("return", createType(id), NoError, Undefined, << >>)
        ELSE IF isHexStr
        THEN Validated("throw", << >>, tooShort, Undefined, <<tooShort>>)
        ELSE IF HasHexPrefix(id)
        THEN Validated("throw", << >>, notHex, Undefined, <<notHex>>)
        ELSE IF parsed.threw
        THEN Validated("throw", << >>, notNum, Undefined, <<parsed.err, notNum>>)
        ELSE Validated("lookup", << >>, NoError, parsed.num, << >>)

\* ValidateBlockId without the two branches that refuse a malformed hex string
ValidateBlockIdHexFallsThrough(id) ==
    LET isHexStr == isHex(id)
        parsed   == parseNumberOrThrow(id, InvalidNumberMessage)
        notNum   == BadRequest(InvalidBlockIdMessage, <<id>>)
    IN  IF isHexStr /\ Len(id) = HashLen
        THEN Validated("return", createType(id), NoError, Undefined, << >>)
        ELSE IF parsed.threw
        THEN Validated("throw", << >>, notNum, Undefined, <<parsed.err, notNum>>)
        ELSE Validated("lookup", << >>, NoError, parsed.num, << >>)

\* ValidateBlockId whose inner catch rethrows an InternalServerError
ValidateBlockIdRewrapsAsInternal(id) ==
    LET isHexStr == isHex(id)
        parsed   == parseNumberOrThrow(id, InvalidNumberMessage)
        tooShort == BadRequest(HexLengthMessage, <<id>>)
        notHex   == BadRequest(InvalidHexMessage, <<id>>)
        notNum   == InternalServerError(InvalidBlockIdMessage, <<id>>)
    IN  IF isHexStr /\ Len(id) = HashLen
        THEN Validated("return", createType(id), NoError, Undefined, << >>)
        ELSE IF isHexStr
        THEN Validated("throw", << >>, tooShort, Undefined, <<tooShort>>)
        ELSE IF HasHexPrefix(id)
        THEN Validated("throw", << >>, notHex, Undefined, <<notHex>>)
        ELSE IF parsed.threw
        THEN Validated("throw", << >>, notNum, Undefined, <<parsed.err, notNum>>)
        ELSE Validated("lookup", << >>, NoError, parsed.num, << >>)

ValidateBlockId(id) ==
    LET isHexStr == isHex(id)
        parsed   == parseNumberOrThrow(id, InvalidNumberMessage)
        tooShort == BadRequest(HexLengthMessage, <<id>>)
        notHex   == BadRequest(InvalidHexMessage, <<id>>)
        notNum   == BadRequest(InvalidBlockIdMessage, <<id>>)
    IN  IF isHexStr /\ Len(id) = HashLen
        THEN Validated("return", createType(id), NoError, Undefined, << >>)
        ELSE IF isHexStr
        THEN Validated("throw", << >>, tooShort, Undefined, <<tooShort>>)
        ELSE IF HasHexPrefix(id)
        THEN Validated("throw", << >>, notHex, Undefined, <<notHex>>)
        ELSE IF parsed.threw
        THEN Validated("throw", << >>, notNum, Undefined, <<parsed.err, notNum>>)
        ELSE Validated("lookup", << >>, NoError, parsed.num, << >>)

\* blockNumber && ...: undefined and 0 are falsy
Truthy(num) == num # Undefined /\ num # 0

\* getHashForBlock's outer catch once the header has arrived: the error
\* thrown, and whether it was constructed here
\* ClassifyLookupFault reporting the requested height as the largest known
ClassifyLookupFaultReportsRequested(err, num, number, id) ==
    IF Truthy(num) /\ number < num
    THEN [err |-> BadRequest(TooLargeMessage, <<NumberToString(num)>>),
          new |-> TRUE]
    ELSE IF isBasicLegacyError(err)
    THEN [err |-> err, new |-> FALSE]
    ELSE [err |-> InternalServerError(CannotGetMessage, <<id>>),
          new |-> TRUE]

\* ClassifyLookupFault without the rethrow of a basic legacy error
ClassifyLookupFaultNeverRethrows(err, num, number, id) ==
    IF Truthy(num) /\ number < num
    THEN [err |-> BadRequest(TooLargeMessage, <<NumberToString(number)>>),
          new |-> TRUE]
    ELSE [err |-> InternalServerError(CannotGetMessage, <<id>>),
          new |-> TRUE]

ClassifyLookupFault(err, num, number, id) ==
    IF Truthy(num) /\ number < num
    THEN [err |-> BadRequest(TooLargeMessage, <<NumberToString(number)>>),
          new |-> TRUE]
    ELSE IF isBasicLegacyError(err)
    THEN [err |-> err, new |-> FALSE]
    ELSE [err |-> InternalServerError(CannotGetMessage, <<id>>),
          new |-> TRUE]

\* getHashForBlock and getHashFromAt end: back in the caller
Finish(o) ==
    /\ outcome' = o
    /\ pc' = IF entry = "getHashFromAt" THEN "done" ELSE "resolved"

\* getHashFromAt refusing an `at` that is present and not a string, as
\* verifyAndCastOr refuses such a parameter
getHashFromAtRejectsNonString ==
    /\ pc = "getHashFromAt"
    /\ CASE at.type = "string" ->
                blockId' = at.str /\ pc' = "getHashForBlock"
                /\ UNCHANGED <<created, outcome>>
         [] at.type = "undefined" ->
                blockId' = blockId /\ pc' = "getFinalizedHead"
                /\ UNCHANGED <<created, outcome>>
         [] OTHER ->
                LET refused == BadRequest(IncorrectArgumentMessage, <<<<"at">>>>)
                IN  /\ blockId' = blockId
                    /\ created' = Append(created, refused)
                    /\ Finish(Throw(refused))
    /\ UNCHANGED <<entry, cb, at, param, orValue, payload, cast, height,
                   blockNumber, caught, calls, handler, guard, res, nexts, passed>>

\* getHashFromAt(at): a string is resolved, anything else is the finalized head
getHashFromAt ==
    /\ pc = "getHashFromAt"
    /\ IF at.type = "string"
       THEN blockId' = at.str /\ pc' = "getHashForBlock"
       ELSE blockId' = blockId /\ pc' = "getFinalizedHead"
    /\ UNCHANGED <<entry, cb, at, param, orValue, payload, cast, height, blockNumber, caught, calls, created,
                   outcome, handler, guard, res, nexts, passed>>

\* getHashFromAtFinalizedHead taking the hash of the latest header's number
getHashFromAtLatestHeader ==
    /\ pc = "getFinalizedHead"
    /\ \/ /\ calls' = calls \o <<Call("getHeader", Undefined, TRUE, << >>, height),
                              Call("getBlockHash", height, TRUE, ChainHash(height), Undefined)>>
          /\ Finish(Return(ChainHash(height)))
       \/ \E fault \in ChainFaults :
          /\ calls' = Append(calls, Call("getHeader", Undefined, FALSE, << >>, Undefined))
          /\ Finish(Throw(fault))
    /\ UNCHANGED <<entry, cb, at, param, orValue, payload, cast, blockId, height,
                   blockNumber, caught, created, handler, guard, res, nexts, passed>>

\* await this.api.rpc.chain.getFinalizedHead() in getHashFromAt
getHashFromAtFinalizedHead ==
    /\ pc = "getFinalizedHead"
    /\ \/ /\ calls' = Append(calls, Call("getFinalizedHead", Undefined, TRUE, ChainHash(height), Undefined))
          /\ Finish(Return(ChainHash(height)))
       \/ \E fault \in ChainFaults :
          /\ calls' = Append(calls, Call("getFinalizedHead", Undefined, FALSE, << >>, Undefined))
          /\ Finish(Throw(fault))
    /\ UNCHANGED <<entry, cb, at, param, orValue, payload, cast, blockId, height, blockNumber, caught, created,
                   handler, guard, res, nexts, passed>>

\* getHashForBlock(blockId) up to its first await
getHashForBlock ==
    /\ pc = "getHashForBlock"
    /\ LET v == ValidateBlockId(blockId)
       IN  /\ created' = created \o v.made
           /\ blockNumber' = v.num
           /\ caught' = v.err
           /\ CASE v.kind = "return" -> Finish(Return(v.hash))
                [] v.kind = "throw"  -> Finish(Throw(v.err))
                [] v.kind = "lookup" -> pc' = "getBlockHash" /\ outcome' = outcome
    /\ UNCHANGED <<entry, cb, at, param, orValue, payload, cast, blockId, height, calls, handler, guard, res,
                   nexts, passed>>

\* return await this.api.rpc.chain.getBlockHash(blockNumber): the client
\* answers for a block the chain has, or rejects
getBlockHash ==
    /\ pc = "getBlockHash"
    /\ \/ /\ blockNumber <= height
          /\ calls' = Append(calls, Call("getBlockHash", blockNumber, TRUE, ChainHash(blockNumber), Undefined))
          /\ Finish(Return(ChainHash(blockNumber)))
          /\ caught' = caught
       \/ \E fault \in ChainFaults :
          /\ calls' = Append(calls, Call("getBlockHash", blockNumber, FALSE, << >>, Undefined))
          /\ caught' = fault
          /\ IF IsHttpError(fault)
             THEN Finish(Throw(fault))
             ELSE pc' = "getHeader" /\ outcome' = outcome
    /\ UNCHANGED <<entry, cb, at, param, orValue, payload, cast, blockId, height, blockNumber, created, handler,
                   guard, res, nexts, passed>>

\* getHeader asking for the header again after the client rejected
getHeaderRetries ==
    /\ pc = "getHeader"
    /\ \/ LET c == ClassifyLookupFault(caught, blockNumber, height, blockId)
          IN  /\ calls' = Append(calls, Call("getHeader", Undefined, TRUE, << >>, height))
              /\ created' = IF c.new THEN Append(created, c.err) ELSE created
              /\ Finish(Throw(c.err))
       \/ \E fault \in ChainFaults :
          LET failed == InternalServerError(HeaderFailedMessage, << >>)
          IN  /\ calls' = Append(calls, Call("getHeader", Undefined, FALSE, << >>, Undefined))
              /\ IF Len(calls) < 2
                 THEN created' = created /\ pc' = pc /\ outcome' = outcome
                 ELSE created' = Append(created, failed) /\ Finish(Throw(failed))
    /\ UNCHANGED <<entry, cb, at, param, orValue, payload, cast, blockId, height,
                   blockNumber, caught, handler, guard, res, nexts, passed>>

\* await this.api.rpc.chain.getHeader() in the outer catch, and the rest of it
getHeader ==
    /\ pc = "getHeader"
    /\ \/ LET c == ClassifyLookupFault(caught, blockNumber, height, blockId)
          IN  /\ calls' = Append(calls, Call("getHeader", Undefined, TRUE, << >>, height))
              /\ created' = IF c.new THEN Append(created, c.err) ELSE created
              /\ Finish(Throw(c.err))
       \/ \E fault \in ChainFaults :
          LET failed == InternalServerError(HeaderFailedMessage, << >>)
          IN  /\ calls' = Append(calls, Call("getHeader", Undefined, FALSE, << >>, Undefined))
              /\ created' = Append(created, failed)
              /\ Finish(Throw(failed))
    /\ UNCHANGED <<entry, cb, at, param, orValue, payload, cast, blockId, height, blockNumber, caught, handler,
                   guard, res, nexts, passed>>

\* ------------------------------------------ PalletsStakingProgressController
\* res.send(body)
Send(r, body) ==
    [r EXCEPT !.headersSent = TRUE, !.sends = r.sends + 1, !.json = body]

\* sanitizedSend sending the body as it came
sanitizedSendRaw(r, body) == Send(r, body)

\* AbstractController.sanitizedSend(res, body)
sanitizedSend(r, body) == Send(r, sanitizeNumbers(body))

\* a handler's call AbstractController.sanitizedSend(res, body)
callSanitizedSend ==
    /\ pc = "sanitizedSend"
    /\ res' = sanitizedSend(res, payload)
    /\ pc' = "done"
    /\ UNCHANGED <<entry, cb, at, param, orValue, payload, cast, blockId, height,
                   blockNumber, caught, calls, created, outcome, handler, guard,
                   nexts, passed>>


\* getStakingInfo: const hash = await this.api.rpc.chain.getFinalizedHead()
getStakingInfo ==
    /\ pc = "getStakingInfo"
    /\ \/ /\ calls' = Append(calls, Call("getFinalizedHead", Undefined, TRUE, ChainHash(height), Undefined))
          /\ outcome' = Return(ChainHash(height))
          /\ pc' = "service"
          /\ handler' = handler
       \/ \E fault \in ChainFaults :
          /\ calls' = Append(calls, Call("getFinalizedHead", Undefined, FALSE, << >>, Undefined))
          /\ outcome' = outcome
          /\ pc' = "settled"
          /\ handler' = Threw(fault, "async")
    /\ UNCHANGED <<entry, cb, at, param, orValue, payload, cast, blockId, height, blockNumber, caught, created,
                   guard, res, nexts, passed>>

\* getStakingInfoAtBlock: const hash = await this.getHashForBlock(number)
getStakingInfoAtBlock ==
    /\ pc = "resolved"
    /\ IF outcome.kind = "throw"
       THEN pc' = "settled" /\ handler' = Threw(outcome.err, "async")
       ELSE pc' = "service" /\ handler' = handler
    /\ UNCHANGED <<entry, cb, at, param, orValue, payload, cast, blockId, height, blockNumber, caught, calls,
                   created, outcome, guard, res, nexts, passed>>

\* derivePalletStakingProgress with the response begun before the service
\* has answered
derivePalletStakingProgressSendsFirst ==
    /\ pc = "service"
    /\ \/ \E era \in Eras :
          /\ res' = sanitizedSend(res, StakingProgress(outcome.hash, era))
          /\ handler' = Returned
       \/ \E fault \in ServiceFaults :
          /\ res' = sanitizedSend(res, Obj(<<Field("at", Obj(<<Field("hash", Str(outcome.hash))>>))>>))
          /\ handler' = Threw(fault, "async")
    /\ pc' = "settled"
    /\ UNCHANGED <<entry, cb, at, param, orValue, payload, cast, blockId, height,
                   blockNumber, caught, calls, created, outcome, guard, nexts, passed>>

\* sanitizedSend(res, await this.service.derivePalletStakingProgress(hash))
derivePalletStakingProgress ==
    /\ pc = "service"
    /\ \/ \E era \in Eras :
          /\ res' = sanitizedSend(res, StakingProgress(outcome.hash, era))
          /\ handler' = Returned
       \/ \E fault \in ServiceFaults :
          /\ res' = res
          /\ handler' = Threw(fault, "async")
    /\ pc' = "settled"
    /\ UNCHANGED <<entry, cb, at, param, orValue, payload, cast, blockId, height, blockNumber, caught, calls,
                   created, outcome, guard, nexts, passed>>

\* a handler of another controller: cb(req, res, next)
Handler ==
    /\ pc = "cb"
    /\ res' = IF cb.sends THEN Send(res, Obj(<< >>)) ELSE res
    /\ handler' = IF cb.mode = "return" THEN Returned ELSE Threw(cb.err, cb.mode)
    /\ pc' = "settled"
    /\ UNCHANGED <<entry, cb, at, param, orValue, payload, cast, blockId, height, blockNumber, caught, calls,
                   created, outcome, guard, nexts, passed>>

\* catchWrap(cb): try { await cb(req, res, next) } catch (err) { next(err) }
\* what the wrapper does once cb has settled: the errors given to next and
\* the state of its own promise
\* CatchWrap as cb(req, res, next).catch(next): a synchronous throw escapes
CatchWrapPromiseOnly(h, given) ==
    IF h.state = "threw" /\ h.mode = "async"
    THEN [nexts |-> Append(given, h.err), guard |-> "fulfilled", pc |-> "errorPipeline"]
    ELSE IF h.state = "threw"
    THEN [nexts |-> given, guard |-> "rejected", pc |-> "done"]
    ELSE [nexts |-> given, guard |-> "fulfilled", pc |-> "done"]

CatchWrap(h, given) ==
    IF h.state = "threw"
    THEN [nexts |-> Append(given, h.err), guard |-> "fulfilled", pc |-> "errorPipeline"]
    ELSE [nexts |-> given, guard |-> "fulfilled", pc |-> "done"]

catchWrap ==
    /\ pc = "settled"
    /\ LET w == CatchWrap(handler, nexts)
       IN  nexts' = w.nexts /\ guard' = w.guard /\ pc' = w.pc
    /\ UNCHANGED <<entry, cb, at, param, orValue, payload, cast, blockId, height, blockNumber, caught, calls,
                   created, outcome, handler, res, passed>>

\* ------------------------------------------------------- txErrorMiddleware
\* txErrorMiddleware(err, _req, res, next): the response after it, and the
\* errors it gave to next
\* TxErrorMiddleware without the headersSent test
TxErrorMiddlewareIgnoresHeadersSent(err, r, given) ==
    IF ~isTxLegacyError(err)
    THEN [res |-> r, passed |-> Append(given, err)]
    ELSE [res |-> [r EXCEPT !.statusCode = 500,
                            !.headersSent = TRUE,
                            !.sends = r.sends + 1,
                            !.errBody = [code |-> 500, error |-> err.error,
                                         data |-> err.data,
                                         transaction |-> err.transaction,
                                         cause |-> err.cause, stack |-> err.stack]],
          passed |-> given]

\* TxErrorMiddleware with cause and stack exchanged in the body
TxErrorMiddlewareSwapsFields(err, r, given) ==
    IF r.headersSent \/ ~isTxLegacyError(err)
    THEN [res |-> r, passed |-> Append(given, err)]
    ELSE [res |-> [r EXCEPT !.statusCode = 500,
                            !.headersSent = TRUE,
                            !.sends = r.sends + 1,
                            !.errBody = [code |-> 500, error |-> err.error,
                                         data |-> err.data,
                                         transaction |-> err.transaction,
                                         cause |-> err.stack, stack |-> err.cause]],
          passed |-> given]

\* TxErrorMiddleware with next(err) not returned: it goes on to the send
TxErrorMiddlewareFallsThrough(err, r, given) ==
    [res |-> [r EXCEPT !.statusCode = 500,
                       !.headersSent = TRUE,
                       !.sends = r.sends + 1,
                       !.errBody = [code |-> 500, error |-> err.error,
                                    data |-> err.data,
                                    transaction |-> err.transaction,
                                    cause |-> err.cause, stack |-> err.stack]],
     passed |-> IF r.headersSent \/ ~isTxLegacyError(err)
                THEN Append(given, err) ELSE given]

TxErrorMiddleware(err, r, given) ==
    IF r.headersSent \/ ~isTxLegacyError(err)
    THEN [res |-> r, passed |-> Append(given, err)]
    ELSE [res |-> [r EXCEPT !.statusCode = 500,
                            !.headersSent = TRUE,
                            !.sends = r.sends + 1,
                            !.errBody = [code |-> 500, error |-> err.error,
                                         data |-> err.data,
                                         transaction |-> err.transaction,
                                         cause |-> err.cause, stack |-> err.stack]],
          passed |-> given]

txErrorMiddleware ==
    /\ pc = "errorPipeline"
    /\ LET m == TxErrorMiddleware(nexts[Len(nexts)], res, passed)
       IN  res' = m.res /\ passed' = m.passed
    /\ pc' = "done"
    /\ UNCHANGED <<entry, cb, at, param, orValue, payload, cast, blockId, height, blockNumber, caught, calls,
                   created, outcome, handler, guard, nexts>>

\* ----------------------------------------------------------- specification
Next ==
    \/ getHashFromAt
    \/ getHashFromAtFinalizedHead
    \/ getHashForBlock
    \/ getBlockHash
    \/ getHeader
    \/ getStakingInfo
    \/ getStakingInfoAtBlock
    \/ derivePalletStakingProgress
    \/ Handler
    \/ catchWrap
    \/ txErrorMiddleware
    \/ verifyAndCastOr
    \/ callSanitizedSend

Spec == Init /\ [][Next]_vars

\* ------------------------------------------------------------------ claims
\* the behaviour calls getHashForBlock, and with which identifier
CallsResolve ==
    entry = "getStakingInfoAtBlock" \/ (entry = "getHashFromAt" /\ at.type = "string")

ResolveInput == IF entry = "getHashFromAt" THEN at.str ELSE blockId

\* getHashForBlock has returned or thrown
ResolveEnded == CallsResolve /\ outcome.kind # "pending"

\* a valid 66-character hex string
IsHashString(id) ==
    /\ Len(id) = 66
    /\ id[1] = "0" /\ id[2] = "x"
    /\ \A i \in 3..66 : id[i] \in HexDigits

StartsWith0x(id) == Len(id) >= 2 /\ id[1] = "0" /\ id[2] = "x"

\* str(n) of a non-negative integer n: decimal digits, no leading zero
IsDecimalOfNat(id) ==
    /\ id # << >>
    /\ \A i \in 1..Len(id) : id[i] \in DecDigits
    /\ (Len(id) > 1 => id[1] # "0")

ValueOf(id) == RadixValue(id, 10)

CallsOf(op) == {i \in 1..Len(calls) : calls[i].op = op}

C2_TooLargeIsBadRequestWhenHeaderAnswers ==
    (ResolveEnded /\ IsDecimalOfNat(ResolveInput) /\ ValueOf(ResolveInput) > height) =>
        /\ outcome.kind = "throw"
        /\ Len(calls) = 2
        /\ calls[1] = Call("getBlockHash", ValueOf(ResolveInput), FALSE, << >>, Undefined)
        /\ calls[2].op = "getHeader"
        /\ IF calls[2].ok
           THEN outcome.err = BadRequest(TooLargeMessage, <<NumberToString(height)>>)
           ELSE outcome.err = InternalServerError(HeaderFailedMessage, << >>)

C2_Witness ==
    /\ ResolveEnded
    /\ IsDecimalOfNat(ResolveInput)
    /\ ValueOf(ResolveInput) > height
    /\ height > 0
    /\ calls[2].ok
    /\ outcome.err.kind = "BadRequest"

\* C2 as claimed: for every n above the chain's height, getHashForBlock(str(n))
\* throws a BadRequest whose message carries the largest known height.
C2_Original ==
    (ResolveEnded /\ IsDecimalOfNat(ResolveInput) /\ ValueOf(ResolveInput) > height) =>
        outcome = Throw(BadRequest(TooLargeMessage, <<NumberToString(height)>>))

\* C3 as amended: for n up to and including the chain's height (0 too),
\* getHashForBlock(str(n)) calls getBlockHash(n) first; when that call
\* answers, it is the only call and its hash is returned; when it rejects,
\* getHashForBlock throws.
C3_KnownHeightReturnsLookupHash ==
    (ResolveEnded /\ IsDecimalOfNat(ResolveInput) /\ ValueOf(ResolveInput) <= height) =>
        /\ Len(calls) >= 1
        /\ calls[1].op = "getBlockHash"
        /\ calls[1].arg = ValueOf(ResolveInput)
        /\ IF calls[1].ok
           THEN /\ Len(calls) = 1
                /\ calls[1].hash = ChainHash(ValueOf(ResolveInput))
                /\ outcome = Return(calls[1].hash)
           ELSE outcome.kind = "throw"

C3_Witness ==
    /\ ResolveEnded
    /\ IsDecimalOfNat(ResolveInput)
    /\ ValueOf(ResolveInput) = height
    /\ outcome.kind = "return"
    /\ outcome.hash = ChainHash(height)

\* C3 as claimed: for every n up to and including the chain's height,
\* getHashForBlock(str(n)) returns the hash of block n.
C3_Original ==
    (ResolveEnded /\ IsDecimalOfNat(ResolveInput) /\ ValueOf(ResolveInput) <= height) =>
        outcome = Return(ChainHash(ValueOf(ResolveInput)))

\* C4: an identifier that starts with 0x and is not a valid 66-character hex
\* string makes getHashForBlock throw a BadRequest, and neither getBlockHash
\* nor getHeader is called for it.
C4_MalformedHexIsBadRequest ==
    (CallsResolve /\ StartsWith0x(ResolveInput) /\ ~IsHashString(ResolveInput)) =>
        /\ calls = << >>
        /\ pc \notin {"getBlockHash", "getHeader"}
        /\ blockNumber = Undefined
        /\ (pc \notin {"getHashFromAt", "getHashForBlock"} =>
                /\ outcome.kind = "throw"
                /\ outcome.err.kind = "BadRequest"
                /\ outcome.err.text \in {HexLengthMessage, InvalidHexMessage}
                /\ outcome.err.args = <<ResolveInput>>)

C4_Witness ==
    /\ ResolveEnded
    /\ ResolveInput = <<"0", "x">>
    /\ outcome.err.kind = "BadRequest"

\* what C5 speaks of: a negative integer, a number with a fraction, or a
\* string with no digit in it that does not start with 0x
IsNegativeInteger(id) ==
    /\ Len(id) >= 2
    /\ id[1] = "-"
    /\ \A i \in 2..Len(id) : id[i] \in DecDigits
    /\ \E i \in 2..Len(id) : id[i] # "0"

IsFraction(id) ==
    \E dot \in 2..(Len(id) - 1) :
        /\ id[dot] = "."
        /\ \A i \in 1..Len(id) : i # dot => id[i] \in DecDigits
        /\ \E i \in (dot + 1)..Len(id) : id[i] # "0"

IsNonNumeric(id) ==
    /\ \A i \in 1..Len(id) : id[i] \notin DecDigits
    /\ ~StartsWith0x(id)

\* C5 as claimed: a negative integer, a non-integer number or a non-numeric,
\* non-hex identifier makes getHashForBlock throw the BadRequest of the
\* invalid block number path, and getBlockHash is never called for it.
C5_Original ==
    (CallsResolve /\ (IsNegativeInteger(ResolveInput) \/ IsFraction(ResolveInput)
                        \/ IsNonNumeric(ResolveInput))) =>
        /\ CallsOf("getBlockHash") = {}
        /\ pc # "getBlockHash"
        /\ (pc \notin {"getHashFromAt", "getHashForBlock"} =>
                outcome = Throw(BadRequest(InvalidBlockIdMessage, <<ResolveInput>>)))

\* the handler is mounted through catchWrap
Guarded == entry \in {"getStakingInfo", "getStakingInfoAtBlock", "handler"}

\* C6: whatever a guarded handler throws, synchronously or by rejecting, is
\* given to next exactly once and unchanged, the wrapper's own promise never
\* rejects, and a handler that returns gives nothing to next.
C6_GuardDeliversEachFailureOnce ==
    Guarded =>
        /\ guard # "rejected"
        /\ (pc = "done" => guard = "fulfilled")
        /\ (handler.state = "threw" /\ pc \in {"errorPipeline", "done"} =>
                nexts = <<handler.err>>)
        /\ (handler.state # "threw" \/ pc = "settled" => nexts = << >>)

C6_Witness ==
    /\ entry = "handler"
    /\ cb.mode = "sync"
    /\ pc = "done"
    /\ nexts = <<cb.err>>
    /\ guard = "fulfilled"

\* C7: when the response has already been sent as an error reaches
\* txErrorMiddleware, the middleware leaves the response as it is and gives
\* that error to next, once, whatever the error is.
C7_SentResponseIsNotWrittenAgain ==
    [][(pc = "errorPipeline" /\ res.headersSent) =>
            /\ res' = res
            /\ passed' = Append(passed, nexts[Len(nexts)])]_vars

C7_Witness ==
    /\ pc = "done"
    /\ cb.sends
    /\ isTxLegacyError(handler.err)
    /\ passed = <<handler.err>>
    /\ res.sends = 1
    /\ res.statusCode = 200

\* C8 as claimed: with no block identifier, a rejected getFinalizedHead is an
\* InternalServerError when it leaves getHashFromAt and when the root route
\* of staking-info hands it to next.
C8_Original ==
    /\ (entry = "getHashFromAt" /\ at.type = "undefined" /\ outcome.kind = "throw") =>
            outcome.err.kind = "InternalServerError"
    /\ (entry = "getStakingInfo" /\ nexts # << >>
            /\ calls = <<Call("getFinalizedHead", Undefined, FALSE, << >>, Undefined)>>) =>
            nexts[1].kind = "InternalServerError"

\* getBlockHash was called and rejected
LookupRejected ==
    /\ CallsResolve
    /\ Len(calls) >= 1
    /\ calls[1].op = "getBlockHash"
    /\ ~calls[1].ok

\* C9 as amended: when getBlockHash(n) rejects, getHashForBlock calls getHeader
\* once and throws: InternalServerError when getHeader rejects, BadRequest
\* when n exceeds the header's number, otherwise the fault itself when it is
\* a basic legacy error, and InternalServerError for any other fault.
C9_RejectedLookupIsClassifiedByHeader ==
    LookupRejected =>
        /\ (pc = "getHeader" => Len(calls) = 1 /\ outcome.kind = "pending")
        /\ (pc # "getHeader" =>
                /\ Len(calls) = 2
                /\ calls[2].op = "getHeader"
                /\ outcome =
                    IF ~calls[2].ok
                    THEN Throw(InternalServerError(HeaderFailedMessage, << >>))
                    ELSE IF calls[1].arg > calls[2].number
                    THEN Throw(BadRequest(TooLargeMessage, <<NumberToString(calls[2].number)>>))
                    ELSE IF isBasicLegacyError(caught)
                    THEN Throw(caught)
                    ELSE Throw(InternalServerError(CannotGetMessage, <<ResolveInput>>)))

C9_Witness ==
    /\ LookupRejected
    /\ Len(calls) = 2
    /\ calls[2].ok
    /\ calls[1].arg <= calls[2].number
    /\ outcome.err.kind = "BasicLegacy"

\* C9 as claimed: when getBlockHash(n) rejects, getHashForBlock calls getHeader
\* once and throws BadRequest when n exceeds the header's number and
\* InternalServerError otherwise, whatever the fault was.
C9_Original ==
    (LookupRejected /\ pc # "getHeader") =>
        /\ Len(calls) = 2
        /\ calls[2].op = "getHeader"
        /\ outcome.kind = "throw"
        /\ outcome.err.kind =
            IF calls[2].ok /\ calls[1].arg > calls[2].number
            THEN "BadRequest"
            ELSE "InternalServerError"

\* C10: an error isTxLegacyError recognises, reaching txErrorMiddleware before
\* the response is sent, sets status 500 and sends one body of code 500 and
\* the error's error, data, transaction, cause and stack, and is not given to
\* next.
C10_TxErrorIsSentAs500 ==
    [][(pc = "errorPipeline" /\ ~res.headersSent /\ nexts[Len(nexts)].kind = "TxLegacy") =>
            /\ res'.statusCode = 500
            /\ res'.headersSent
            /\ res'.sends = res.sends + 1
            /\ res'.json = res.json
            /\ res'.errBody = [code |-> 500,
                               error |-> nexts[Len(nexts)].error,
                               data |-> nexts[Len(nexts)].data,
                               transaction |-> nexts[Len(nexts)].transaction,
                               cause |-> nexts[Len(nexts)].cause,
                               stack |-> nexts[Len(nexts)].stack]
            /\ passed' = passed]_vars

C10_Witness ==
    /\ pc = "done"
    /\ res.statusCode = 500
    /\ res.sends = 1
    /\ res.errBody.transaction = "0xtx2"
    /\ res.errBody.stack = "stack2"
    /\ passed = << >>

\* C11: txErrorMiddleware handles an error exactly when it has the shape of a
\* transaction error and the response is unsent: then it writes the response
\* once and gives nothing to next; every other error goes to next as it came,
\* with the response untouched. Each call does one of the two, never both.
C11_TxMiddlewareWritesOrPasses ==
    [][pc = "errorPipeline" =>
        LET err     == nexts[Len(nexts)]
            handles == err.kind = "TxLegacy" /\ ~res.headersSent
            wrote   == res' # res
            gave    == passed' # passed
        IN  /\ wrote = handles
            /\ gave = ~handles
            /\ handles => res'.sends = res.sends + 1 /\ res'.headersSent
            /\ ~handles => passed' = Append(passed, err)]_vars

\* an error that is no transaction error was passed on, the response unwritten
C11_Witness ==
    /\ pc = "done"
    /\ Len(nexts) = 1
    /\ nexts[1].kind \in {"BadRequest", "BasicLegacy", "InternalServerError", "Other"}
    /\ passed = nexts
    /\ res.sends = 0 /\ ~res.headersSent

\* C12: an error constructed during getHashForBlock is the one that leaves
\* it, with one exception that keeps the class: the BadRequest thrown by
\* parseNumberOrThrow is caught before any chain-client call and replaced by a
\* new BadRequest that names the block id. Nothing else is replaced, so the
\* error that leaves is always the last one constructed.
C12_OnlyInvalidNumberIsRewrapped ==
    CallsResolve =>
        /\ Len(created) <= 2
        /\ created # << >> => outcome = Throw(created[Len(created)])
        /\ Len(created) = 2 =>
              /\ created[1] = BadRequest(InvalidNumberMessage, << >>)
              /\ created[2] = BadRequest(InvalidBlockIdMessage, <<ResolveInput>>)
              /\ calls = << >>

\* the invalid-number path was taken: two errors were constructed, the second
\* left
C12_Witness ==
    /\ ResolveEnded
    /\ Len(created) = 2
    /\ outcome.err = created[2]
    /\ outcome.err # created[1]

\* C12 as stated: the first error constructed for a fault is the one that
\* leaves, and no second one is constructed
C12_Original ==
    (CallsResolve /\ created # << >>) =>
        /\ Len(created) = 1
        /\ outcome = Throw(created[1])

\* C13: getHashForBlock retries nothing. It calls getBlockHash at most once
\* and getHeader at most once, the latter only as its second call and only
\* after getBlockHash was rejected; an operation that was rejected is not
\* called again; and after two chain-client calls it has ended, with a hash
\* or an error.
C13_NoChainCallIsRepeated ==
    CallsResolve =>
        /\ Cardinality(CallsOf("getBlockHash")) <= 1
        /\ Cardinality(CallsOf("getHeader")) <= 1
        /\ \A i \in CallsOf("getHeader") :
              i = 2 /\ calls[1].op = "getBlockHash" /\ ~calls[1].ok
        /\ \A i, j \in 1..Len(calls) :
              (i < j /\ ~calls[i].ok) => calls[j].op # calls[i].op
        /\ Len(calls) <= 2
        /\ Len(calls) = 2 => outcome.kind \in {"return", "throw"}

\* getBlockHash was rejected, then getHeader was rejected, and
\* getHashForBlock ended there
C13_Witness ==
    /\ ResolveEnded
    /\ Len(calls) = 2
    /\ calls[1].op = "getBlockHash" /\ ~calls[1].ok
    /\ calls[2].op = "getHeader" /\ ~calls[2].ok
    /\ outcome.kind = "throw"

\* what getHashFromAt does when it takes the finalized head: one
\* getFinalizedHead call and no other, whose hash it returns as given and
\* whose rejection it passes on, constructing no error of its own
TakesFinalizedHead ==
    /\ Len(calls) <= 1
    /\ \A i \in 1..Len(calls) : calls[i].op = "getFinalizedHead"
    /\ created = << >>
    /\ outcome.kind = "pending" <=> calls = << >>
    /\ outcome.kind = "return" =>
          calls[1].ok /\ outcome.hash = calls[1].hash /\ outcome.hash = ChainHash(height)
    /\ outcome.kind = "throw" => ~calls[1].ok /\ outcome.err \in ChainFaults

\* C14: with `at` absent, getHashFromAt is a direct finalized-head lookup: it
\* calls getFinalizedHead once, calls neither getBlockHash nor getHeader, and
\* returns the hash that call gave, unchanged.
C14_AbsentAtIsFinalizedHeadLookup ==
    (entry = "getHashFromAt" /\ at.type = "undefined") =>
        /\ TakesFinalizedHead
        /\ CallsOf("getBlockHash") = {} /\ CallsOf("getHeader") = {}
        /\ blockId = << >> /\ blockNumber = Undefined

\* `at` was absent, getFinalizedHead answered and its hash was returned
C14_Witness ==
    /\ entry = "getHashFromAt" /\ at.type = "undefined"
    /\ pc = "done"
    /\ calls = <<Call("getFinalizedHead", Undefined, TRUE, ChainHash(height), Undefined)>>
    /\ outcome = Return(ChainHash(height))

\* C18: an `at` that is present but not a string (a repeated parameter parsed
\* to a list, a nested one parsed to an object) is not validated: getHashFromAt
\* never fails with a BadRequest for it and never calls getBlockHash, it takes
\* the finalized head as it does when `at` is absent.
C18_NonStringAtIsNotValidated ==
    (entry = "getHashFromAt" /\ at.type \in {"array", "object"}) =>
        /\ outcome.err.kind # "BadRequest"
        /\ \A i \in 1..Len(created) : created[i].kind # "BadRequest"
        /\ CallsOf("getBlockHash") = {}
        /\ pc # "getHashForBlock"
        /\ TakesFinalizedHead

\* `at` was a list and getHashFromAt returned the finalized head
C18_Witness ==
    /\ entry = "getHashFromAt" /\ at.type = "array"
    /\ pc = "done"
    /\ outcome = Return(ChainHash(height))
    /\ Len(calls) = 1 /\ calls[1].op = "getFinalizedHead"

\* a string of decimal digits, which denotes a non-negative integer
DenotesNat(s) == s # << >> /\ AllIn(s, DecDigits)

\* C15 as claimed: verifyAndCastOr returns the default only for an absent
\* parameter, returns n for a string that denotes the non-negative integer n,
\* and throws a BadRequest for every other value that is present: one that is
\* not a string, or a string that denotes no non-negative integer.
C15_Original ==
    (entry = "verifyAndCastOr" /\ pc = "done") =>
        CASE param.type = "undefined" -> cast = CastReturn(orValue)
          [] param.type = "string" /\ DenotesNat(param.str) ->
                cast = CastReturn(ValueOf(param.str))
          [] OTHER -> cast.kind = "throw" /\ cast.err.kind = "BadRequest"

\* v and w have the same structure: the same kind of container with the same
\* keys in the same order and the same number of elements, all the way down
RECURSIVE SameShape(_, _)
SameShape(v, w) ==
    IF v.t \in {"arr", "obj"}
    THEN /\ w.t = v.t
         /\ Len(w.items) = Len(v.items)
         /\ \A i \in 1..Len(v.items) :
               /\ w.items[i].key = v.items[i].key
               /\ SameShape(v.items[i].val, w.items[i].val)
    ELSE w.t \notin {"arr", "obj"}

\* C16: sanitizeNumbers is idempotent and keeps the structure of its
\* argument (keys, their order, lengths), and sanitizedSend(res, body) writes
\* the response once, with sanitizeNumbers(body) as its body.
C16_SanitizedSendWritesSanitizedBody ==
    entry = "sanitizedSend" =>
        LET clean == sanitizeNumbers(payload)
        IN  /\ sanitizeNumbers(clean) = clean
            /\ SameShape(payload, clean)
            /\ pc = "sanitizedSend" => res.sends = 0 /\ res.json = NoBody
            /\ pc = "done" => res.sends = 1 /\ res.headersSent /\ res.json = clean

\* a nested body with a chain-native number in it was sent, rewritten
C16_Witness ==
    /\ entry = "sanitizedSend"
    /\ pc = "done"
    /\ payload = Obj(<<Field("b", Num(3)), Field("a", Arr(<<Bn(12), HexNumber(<<"0", "x", "1", "a">>)>>))>>)
    /\ res.json = Obj(<<Field("b", Num(3)), Field("a", Arr(<<Str(<<"1", "2">>), Str(<<"2", "6">>)>>))>>)
    /\ res.json # payload

\* a request to one of the two routes of staking-info
StakingRoute == entry \in {"getStakingInfo", "getStakingInfoAtBlock"}

\* C17: a request to a staking-info route has its response written at most
\* once, whatever the chain client and the service answer. The handler writes
\* only the success body, after the block hash was resolved and the service
\* answered; a handler that fails has written nothing, and then the only write
\* is that of txErrorMiddleware, made when it handles the error it was given.
C17_StakingResponseWrittenAtMostOnce ==
    StakingRoute =>
        /\ res.sends <= 1
        /\ handler.state = "running" => res.sends = 0 /\ res.json = NoBody
        /\ handler.state = "returned" =>
              /\ res.sends = 1 /\ res.statusCode = 200
              /\ outcome.kind = "return"
              /\ \E era \in Eras :
                    res.json = sanitizeNumbers(StakingProgress(outcome.hash, era))
              /\ res.errBody = NoErrorBody
              /\ nexts = << >> /\ passed = << >>
        /\ handler.state = "threw" =>
              /\ res.json = NoBody
              /\ pc # "done" => res.sends = 0
              /\ pc = "done" =>
                    /\ nexts = <<handler.err>>
                    /\ IF isTxLegacyError(handler.err)
                       THEN res.sends = 1 /\ res.statusCode = 500 /\ passed = << >>
                       ELSE res.sends = 0 /\ passed = nexts

\* the block hash was resolved, the service failed with the error of a
\* transaction, and the one write is the 500 of txErrorMiddleware
C17_Witness ==
    /\ entry = "getStakingInfoAtBlock"
    /\ pc = "done"
    /\ outcome.kind = "return"
    /\ handler.state = "threw" /\ isTxLegacyError(handler.err)
    /\ res.sends = 1 /\ res.statusCode = 500
    /\ res.json = NoBody

==============================================================================
